---- MODULE Spec2Model ----
(***************************************************************************)
(* A model of two parts of fq:                                             *)
(*   - format/mpeg/avc_au.go: the AVC access unit splitter, run by the     *)
(*     interpreter's _decode function on top of the decoder runtime;       *)
(*   - the interp value bridge that adapts decode.Value nodes to jq        *)
(*     values (key, has, index, keys, update, to-plain, extended keys).    *)
(* The decoder runtime (package decode) is modelled from its description   *)
(* in spec.md sections 3, 4.1 and 4.4.                                     *)
(***************************************************************************)
EXTENDS Integers, Sequences, FiniteSets, TLC

VARIABLES
  buf,      \* the input bytes handed to _decode
  inArg,    \* the "in" argument of avcAUDecode
  opts,     \* _decode's context and arguments: c, a[0], a[1].force
  nodes,    \* the arena of decode.Value nodes; a node is named by its index
  pos,      \* decode.D: current bit position
  stack,    \* decode.D: the compounds being populated, innermost last
  pc,       \* where the run is
  derr,     \* the error the decode function aborted with (Fatal), or NoErr
  dv,       \* the root decode.Value decode.Decode returned, 0 for nil
  call,     \* the last value-bridge call
  ret       \* what _decode or the last value-bridge call returned

vars == <<buf, inArg, opts, nodes, pos, stack, pc, derr, dv, call, ret>>

(***************************************************************************)
(* Bounds of the model.                                                    *)
(***************************************************************************)
MaxInputLen == 4      \* enumerated inputs have at most this many bytes
MaxByte == 2          \* enumerated inputs draw bytes from 0..MaxByte
MaxLengthSize == 2    \* enumerated AvcIn.LengthSize values are 0..MaxLengthSize
MaxFields == 2        \* the generic plugin appends at most this many fields

(***************************************************************************)
(* Go values.  Every interface{} value is a record with a tag t.           *)
(***************************************************************************)
GoNil == [t |-> "nil"]
GoBool(b) == [t |-> "bool", v |-> b]
GoInt(i) == [t |-> "int", v |-> i]
GoString(s) == [t |-> "string", v |-> s]
BigInt(i) == [t |-> "bigint", v |-> i]
GoSlice(s) == [t |-> "slice", v |-> s]
GoMap(m) == [t |-> "map", v |-> m]
GoPanic(m) == [t |-> "panic", msg |-> m]

NoErr == [t |-> "nil"]

\* no value-bridge call in flight
NoCall == [op |-> "none", dv |-> 0, key |-> GoNil, u |-> GoNil, delpath |-> FALSE]
FormatError(format, msg, p) == [t |-> "FormatError", format |-> format, msg |-> msg, pos |-> p]
FormatsError(errs) == [t |-> "FormatsError", errs |-> errs]
\* FormatError.Value(): the error as a jq value
FormatErrorValue(e) == [t |-> "map", of |-> "FormatError", format |-> e.format, msg |-> e.msg, pos |-> e.pos]

SeqRange(s) == {s[i] : i \in 1..Len(s)}

(***************************************************************************)
(* decode.Value: the tree, kept as an arena.  parent = 0 is a nil Parent.  *)
(***************************************************************************)
Compound(name, isArray, start, len, parent, children, err, format) ==
  [name |-> name, kind |-> IF isArray THEN "array" ELSE "struct",
   start |-> start, len |-> len, parent |-> parent, children |-> children,
   err |-> err, format |-> format, description |-> "",
   actual |-> GoNil, sym |-> GoNil, unknown |-> FALSE]

Scalar(name, start, len, parent, actual, unknown) ==
  [name |-> name, kind |-> "scalar",
   start |-> start, len |-> len, parent |-> parent, children |-> <<>>,
   err |-> NoErr, format |-> "", description |-> "",
   actual |-> actual, sym |-> GoNil, unknown |-> unknown]

IsCompound(n) == n.kind \in {"struct", "array"}

\* append child id c to compound id p
AddChild(ns, p, c) == [ns EXCEPT ![p].children = Append(@, c)]

(***************************************************************************)
(* Scalar actual values as the decoder stores them.                        *)
(***************************************************************************)
ActualU(n) == [t |-> "uint64", v |-> n]
ActualBits(start, len) == [t |-> "bitio.Buffer", start |-> start, len |-> len]
ActualJSON(m) == [t |-> "map", v |-> m]
ActualBytes(b) == [t |-> "bytes", v |-> b]

(***************************************************************************)
(* The adapters makeDecodeValue builds.                                    *)
(***************************************************************************)
NewArrayDecodeValue(id) == [t |-> "ArrayDecodeValue", dv |-> id, Typ |-> "array"]
NewStructDecodeValue(id) == [t |-> "StructDecodeValue", dv |-> id, Typ |-> "object"]
DecodeValue(id, jq, bitsFormat) ==
  [t |-> "decodeValue", dv |-> id, JQValue |-> jq, bitsFormat |-> bitsFormat]
BufferRange(start, len, unit) ==
  [t |-> "BufferRange", start |-> start, len |-> len, unit |-> unit]

makeDecodeValue(id) ==
  LET n == nodes[id] IN
  IF n.kind = "array" THEN NewArrayDecodeValue(id)
  ELSE IF n.kind = "struct" THEN NewStructDecodeValue(id)
  ELSE CASE n.actual.t = "bitio.Buffer" ->
              DecodeValue(id, [t |-> "String", bits |-> <<n.actual.start, n.actual.len>>], TRUE)
         [] n.actual.t = "uint64" ->
              DecodeValue(id, [t |-> "Number", v |-> BigInt(n.actual.v)], FALSE)
         [] n.actual.t = "map" ->
              DecodeValue(id, [t |-> "Object", v |-> n.actual.v], FALSE)
         [] n.actual.t = "bytes" ->
              BufferRange(0, 8 * Len(n.actual.v), 8)
         [] n.actual.t = "nil" ->
              DecodeValue(id, [t |-> "Null"], FALSE)

IsDecodeValue(v) == v.t \in {"ArrayDecodeValue", "StructDecodeValue", "decodeValue"}

(***************************************************************************)
(* decode.Value's tree walks (spec.md 3.2, 4.2).                           *)
(***************************************************************************)
RECURSIVE Root(_)
Root(id) == IF nodes[id].parent = 0 THEN id ELSE Root(nodes[id].parent)

\* no sub-buffer is decoded in these trees: the tree root is the buffer root
BufferRoot(id) == Root(id)

RECURSIVE FormatRoot(_)
FormatRoot(id) ==
  IF nodes[id].format # "" \/ nodes[id].parent = 0 THEN id
  ELSE FormatRoot(nodes[id].parent)

\* the 0-based position of id among its parent's children
IndexIn(p, id) == (CHOOSE i \in 1..Len(nodes[p].children) : nodes[p].children[i] = id) - 1

RECURSIVE valuePath(_)
valuePath(id) ==
  LET p == nodes[id].parent IN
  IF p = 0 THEN <<>>
  ELSE valuePath(p) \o <<IF nodes[p].kind = "array" THEN GoInt(IndexIn(p, id))
                          ELSE GoString(nodes[id].name)>>

RangeStop(n) == n.start + n.len

\* gojqextra.ToGoJQValue on an actual or sym value
ToGoJQValue(a) ==
  CASE a.t = "uint64" -> BigInt(a.v)
    [] a.t = "map" -> GoMap(a.v)
    [] a.t = "bitio.Buffer" -> [t |-> "bits", start |-> a.start, len |-> a.len]
    [] OTHER -> a

(***************************************************************************)
(* The value bridge.                                                       *)
(***************************************************************************)
expectedExtkeyError(key) == [t |-> "expectedExtkeyError", Key |-> key]
notUpdateableError(key, typ) == [t |-> "notUpdateableError", Key |-> key, Typ |-> typ]
HasKeyTypeError(l, r) == [t |-> "HasKeyTypeError", L |-> l, R |-> r]
ExpectedObjectError(typ) == [t |-> "ExpectedObjectError", Typ |-> typ]

\* whether a Go value implements error
IsError(v) ==
  v.t \in {"expectedExtkeyError", "notUpdateableError", "HasKeyTypeError",
           "ExpectedObjectError", "error", "FormatError", "FormatsError"}

\* strings.HasPrefix
HasPrefix(s, prefix) ==
  Len(s) >= Len(prefix) /\ SubSeq(s, 1, Len(prefix)) = prefix

\* fmt.Sprintf("%v", key) for a string or an int key
SprintfV(key) ==
  CASE key.t = "string" -> key.v
    [] key.t = "int" -> ToString(key.v)
    [] OTHER -> "<nil>"

\* mutant: the Compound keys are never added
ExtKeys_base(v) ==
  <<"_start", "_stop", "_len", "_name", "_root", "_buffer_root", "_format_root",
    "_parent", "_actual", "_sym", "_description", "_path", "_bits", "_bytes",
    "_unknown">>

\* lines 274-301
ExtKeys(v) ==
  <<"_start", "_stop", "_len", "_name", "_root", "_buffer_root", "_format_root",
    "_parent", "_actual", "_sym", "_description", "_path", "_bits", "_bytes",
    "_unknown">>
  \o (IF IsCompound(nodes[v.dv]) THEN <<"_error", "_format">> ELSE <<>>)

\* mutant: the parent where the root is meant
KeyRoot_parent(id) ==
  IF nodes[id].parent = 0 THEN makeDecodeValue(id) ELSE makeDecodeValue(nodes[id].parent)

\* lines 315-316
KeyRoot(id) == makeDecodeValue(Root(id))

\* lines 323-327
KeyParent(id) ==
  IF nodes[id].parent = 0 THEN GoNil ELSE makeDecodeValue(nodes[id].parent)

\* lines 303-419
decodeValueBase_JQValueKey(v, name) ==
  LET id == v.dv
      n == nodes[id]
  IN CASE name = "_start" -> BigInt(n.start)
       [] name = "_stop" -> BigInt(RangeStop(n))
       [] name = "_len" -> BigInt(n.len)
       [] name = "_name" -> GoString(n.name)
       [] name = "_root" -> KeyRoot(id)
       [] name = "_buffer_root" -> makeDecodeValue(BufferRoot(id))
       [] name = "_format_root" -> makeDecodeValue(FormatRoot(id))
       [] name = "_parent" -> KeyParent(id)
       [] name = "_actual" -> IF n.kind = "scalar" THEN ToGoJQValue(n.actual) ELSE GoNil
       [] name = "_sym" -> IF n.kind = "scalar" THEN ToGoJQValue(n.sym) ELSE GoNil
       [] name = "_description" ->
            IF n.description = "" THEN GoNil ELSE GoString(n.description)
       [] name = "_path" -> GoSlice(valuePath(id))
       [] name = "_error" ->
            IF IsCompound(n)
            THEN IF n.err.t = "FormatError" THEN FormatErrorValue(n.err) ELSE n.err
            ELSE GoNil
       [] name = "_bits" -> BufferRange(n.start, n.len, 1)
       [] name = "_bytes" -> BufferRange(n.start, n.len, 8)
       [] name = "_format" ->
            IF IsCompound(n)
            THEN IF n.format # "" THEN GoString(n.format) ELSE GoNil
            ELSE IF n.actual.t \in {"map", "slice"} THEN GoString("json") ELSE GoNil
       [] name = "_unknown" ->
            IF n.kind = "scalar" THEN GoBool(n.unknown) ELSE GoBool(FALSE)
       [] OTHER -> expectedExtkeyError(name)

\* gojqextra: key and has of a scalar's JQValue and of Base answer no plain name
JQValue_JQValueKey(v, name) == ExpectedObjectError(v.JQValue.t)
JQValue_JQValueHas(v, key) == HasKeyTypeError(v.JQValue.t, SprintfV(key))
Base_JQValueKey(v, name) == ExpectedObjectError(v.Typ)

Children(v) == nodes[v.dv].children

\* the function each adapter passes as b: its own answer for a plain key
PlainKey(v, name) ==
  CASE v.t = "decodeValue" -> JQValue_JQValueKey(v, name)
    [] v.t = "ArrayDecodeValue" -> Base_JQValueKey(v, name)

\* lines 153-158; every caller passes the decodeValueBase lookup of v as a
valueKey(v, name) ==
  IF HasPrefix(name, "_") THEN decodeValueBase_JQValueKey(v, name)
  ELSE PlainKey(v, name)

\* lines 429-431
decodeValue_JQValueKey(v, name) == valueKey(v, name)

\* lines 435-454: the scalar's plain value; a bit buffer goes through BitsFormatFn
decodeValue_JQValueToGoJQEx(v) ==
  IF ~v.bitsFormat
  THEN CASE v.JQValue.t = "Number" -> v.JQValue.v
         [] v.JQValue.t = "Object" -> GoMap(v.JQValue.v)
         [] v.JQValue.t = "Null" -> GoNil
  ELSE [t |-> "string", format |-> "BitsFormatFn",
        start |-> nodes[v.dv].start, len |-> nodes[v.dv].len]

\* lines 474-476
ArrayDecodeValue_JQValueKey(v, name) == valueKey(v, name)

\* lines 477-478
ArrayDecodeValue_JQValueLength(v) == GoInt(Len(Children(v)))

\* lines 479-485; an index past the end is a Go run-time panic
ArrayDecodeValue_JQValueIndex(v, index) ==
  IF index < 0 THEN GoNil
  ELSE IF index >= Len(Children(v)) THEN GoPanic("index out of range")
  ELSE makeDecodeValue(Children(v)[index + 1])

\* mutant: the struct's type name copied to the array
ArrayDecodeValue_JQValueUpdate_object(v, key, u, delpath) ==
  notUpdateableError(SprintfV(key), "object")

\* lines 493-495
ArrayDecodeValue_JQValueUpdate(v, key, u, delpath) ==
  notUpdateableError(SprintfV(key), "array")

\* lines 503-509
ArrayDecodeValue_JQValueKeys(v) ==
  GoSlice([i \in 1..Len(Children(v)) |-> GoInt(i - 1)])

\* mutant: the upper bound is included
ArrayHasKey_inclusive(v, key) ==
  IF key.t # "int" THEN HasKeyTypeError("array", SprintfV(key))
  ELSE GoBool(key.v >= 0 /\ key.v <= Len(Children(v)))

\* lines 514-520
ArrayHasKey(v, key) ==
  IF key.t # "int" THEN HasKeyTypeError("array", SprintfV(key))
  ELSE GoBool(key.v >= 0 /\ key.v < Len(Children(v)))


\* lines 522-528
ArrayDecodeValue_JQValueToGoJQ(v) ==
  GoSlice([i \in 1..Len(Children(v)) |-> makeDecodeValue(Children(v)[i])])

\* lines 548-549
StructDecodeValue_JQValueLength(v) == GoInt(Len(Children(v)))

\* lines 555-560: the first child of that name, or nil
StructChildByName(v, name) ==
  LET hits == {i \in 1..Len(Children(v)) : nodes[Children(v)[i]].name = name}
  IN IF hits = {} THEN GoNil
     ELSE makeDecodeValue(Children(v)[CHOOSE i \in hits : \A j \in hits : i <= j])

\* mutant: the children are searched before the prefix is looked at
StructDecodeValue_JQValueKey_childFirst(v, name) ==
  IF StructChildByName(v, name) # GoNil THEN StructChildByName(v, name)
  ELSE IF HasPrefix(name, "_") THEN decodeValueBase_JQValueKey(v, name)
  ELSE GoNil

\* lines 550-561
StructDecodeValue_JQValueKey(v, name) ==
  IF HasPrefix(name, "_") THEN decodeValueBase_JQValueKey(v, name)
  ELSE StructChildByName(v, name)

\* lines 562-564
StructDecodeValue_JQValueUpdate(v, key, u, delpath) ==
  notUpdateableError(SprintfV(key), "object")

\* lines 572-578
StructDecodeValue_JQValueKeys(v) ==
  GoSlice([i \in 1..Len(Children(v)) |-> GoString(nodes[Children(v)[i]].name)])

\* mutant: only the first child is compared
StructHasKey_first(v, key) ==
  IF key.t # "string" THEN HasKeyTypeError("object", SprintfV(key))
  ELSE GoBool(Children(v) # <<>> /\ nodes[Children(v)[1]].name = key.v)

\* lines 583-594
StructHasKey(v, key) ==
  IF key.t # "string" THEN HasKeyTypeError("object", SprintfV(key))
  ELSE GoBool(\E i \in 1..Len(Children(v)) : nodes[Children(v)[i]].name = key.v)

\* the function each adapter passes as b: its own answer for a plain key
PlainHas(v, key) ==
  CASE v.t = "decodeValue" -> JQValue_JQValueHas(v, key)
    [] v.t = "ArrayDecodeValue" -> ArrayHasKey(v, key)
    [] v.t = "StructDecodeValue" -> StructHasKey(v, key)

\* lines 159-168; every caller passes the decodeValueBase lookup of v as a
valueHas(v, key) ==
  IF key.t = "string" /\ HasPrefix(key.v, "_")
  THEN IF IsError(decodeValueBase_JQValueKey(v, key.v))
       THEN decodeValueBase_JQValueKey(v, key.v)
       ELSE GoBool(TRUE)
  ELSE PlainHas(v, key)

\* lines 432-434
decodeValue_JQValueHas(v, key) == valueHas(v, key)

\* lines 510-521
ArrayDecodeValue_JQValueHas(v, key) == valueHas(v, key)

\* lines 579-596
StructDecodeValue_JQValueHas(v, key) == valueHas(v, key)

\* lines 597-603: a Go map; a later child of the same name overwrites
StructDecodeValue_JQValueToGoJQ(v) ==
  LET names == {nodes[c].name : c \in SeqRange(Children(v))}
      lastOf(nm) == CHOOSE i \in 1..Len(Children(v)) :
                      /\ nodes[Children(v)[i]].name = nm
                      /\ \A j \in 1..Len(Children(v)) :
                           nodes[Children(v)[j]].name = nm => j <= i
  IN GoMap([nm \in names |-> makeDecodeValue(Children(v)[lastOf(nm)])])

\* the method the query engine reaches through the JQValue interface
JQValueKey(v, name) ==
  CASE v.t = "StructDecodeValue" -> StructDecodeValue_JQValueKey(v, name)
    [] v.t = "ArrayDecodeValue" -> ArrayDecodeValue_JQValueKey(v, name)
    [] v.t = "decodeValue" -> decodeValue_JQValueKey(v, name)

JQValueHas(v, key) ==
  CASE v.t = "StructDecodeValue" -> StructDecodeValue_JQValueHas(v, key)
    [] v.t = "ArrayDecodeValue" -> ArrayDecodeValue_JQValueHas(v, key)
    [] v.t = "decodeValue" -> decodeValue_JQValueHas(v, key)

JQValueUpdate(v, key, u, delpath) ==
  CASE v.t = "StructDecodeValue" -> StructDecodeValue_JQValueUpdate(v, key, u, delpath)
    [] v.t = "ArrayDecodeValue" -> ArrayDecodeValue_JQValueUpdate(v, key, u, delpath)

JQValueKeys(v) ==
  CASE v.t = "StructDecodeValue" -> StructDecodeValue_JQValueKeys(v)
    [] v.t = "ArrayDecodeValue" -> ArrayDecodeValue_JQValueKeys(v)

JQValueLength(v) ==
  CASE v.t = "StructDecodeValue" -> StructDecodeValue_JQValueLength(v)
    [] v.t = "ArrayDecodeValue" -> ArrayDecodeValue_JQValueLength(v)

JQValueToGoJQ(v) ==
  CASE v.t = "StructDecodeValue" -> StructDecodeValue_JQValueToGoJQ(v)
    [] v.t = "ArrayDecodeValue" -> ArrayDecodeValue_JQValueToGoJQ(v)
    [] v.t = "decodeValue" -> decodeValue_JQValueToGoJQEx(v)

(***************************************************************************)
(* decode.D: the reader (spec.md 4.1, 6.2).                                *)
(***************************************************************************)
BufBits == 8 * Len(buf)
BitsLeft == BufBits - pos
NotEnd == BitsLeft > 0

RECURSIVE BigEndian(_)
BigEndian(bytes) ==
  IF bytes = <<>> THEN 0
  ELSE BigEndian(SubSeq(bytes, 1, Len(bytes) - 1)) * 256 + bytes[Len(bytes)]

\* the unsigned integer in the nBits bits at bit position p (byte aligned here)
ReadU(p, nBits) == BigEndian(SubSeq(buf, (p \div 8) + 1, (p + nBits) \div 8))

\* FieldU's constraint: 0 <= width <= 64 and the bits are there
CanRead(nBits) == nBits >= 0 /\ nBits <= 64 /\ nBits <= BitsLeft

(***************************************************************************)
(* The avc_nalu dependency: what one length-scoped sub-decode of nBits     *)
(* bits may do.  The candidate either fails or completes having consumed   *)
(* any number of bits of its window.                                       *)
(***************************************************************************)
SubDecodeOutcomes(nBits) ==
  {[ok |-> FALSE, used |-> 0]} \cup {[ok |-> TRUE, used |-> k] : k \in 0..nBits}

\* FieldFormatLen's sub-tree at id, window [p, p+nBits), under parent
SubTree(id, name, p, nBits, parent, out) ==
  LET hdr == IF out.ok /\ out.used > 0
             THEN <<Scalar("header", p, out.used, id, ActualBits(p, out.used), FALSE)>>
             ELSE <<>>
      gapStart == p + (IF out.ok THEN out.used ELSE 0)
      gap == IF gapStart < p + nBits
             THEN <<Scalar("unknown0", gapStart, p + nBits - gapStart, id,
                           ActualBits(gapStart, p + nBits - gapStart), TRUE)>>
             ELSE <<>>
      kids == hdr \o gap
      top == Compound(name, FALSE, p, nBits, parent,
                      [i \in 1..Len(kids) |-> id + i],
                      IF out.ok THEN NoErr
                      ELSE FormatsError(<<FormatError("avc_nalu", "failed", p)>>),
                      IF out.ok THEN "avc_nalu" ELSE "")
  IN <<top>> \o kids

(***************************************************************************)
(* avc_au.go                                                               *)
(***************************************************************************)
LengthBits(avcIn) == avcIn.LengthSize * 8

\* mutant: the length taken as a bit count
NaluBits_bytes(l) == l

NaluBits(l) == l * 8

\* lines 26-30: the type assertion on the in argument
AvcAUDecodeEnter ==
  /\ pc = "start"
  /\ IF ~inArg.isAvcIn
     THEN /\ pc' = "fatal"
          /\ derr' = FormatError("avc_au", "avcIn required", pos)
     ELSE /\ pc' = "loop"
          /\ derr' = derr
  /\ UNCHANGED <<buf, inArg, opts, nodes, pos, stack, dv, call, ret>>

\* lines 32-37: one iteration of the loop, FieldStruct("nalu", ...)
AvcAULoop ==
  /\ pc = "loop"
  /\ NotEnd
  /\ Len(nodes[1].children) <= MaxInputLen
  /\ LET p == pos
         w == LengthBits(inArg)
         s == Len(nodes) + 1
     IN IF ~CanRead(w)
        THEN \* FieldU reads past the end: Fatal, the struct's partial children go
             /\ pc' = "fatal"
             /\ derr' = FormatError("avc_au", "outside buffer", p)
             /\ UNCHANGED <<nodes, pos>>
        ELSE LET l == ReadU(p, w)
                 nb == NaluBits(l)
             IN IF nb > BitsLeft - w
                THEN \* the window of FieldFormatLen does not fit
                     /\ pc' = "fatal"
                     /\ derr' = FormatError("avc_au", "outside buffer", p + w)
                     /\ UNCHANGED <<nodes, pos>>
                ELSE \E out \in SubDecodeOutcomes(nb) :
                       LET sub == SubTree(s + 2, "nalu", p + w, nb, s, out)
                           st == Compound("nalu", FALSE, p, w + nb, 1, <<s + 1, s + 2>>, NoErr, "")
                           len == Scalar("length", p, w, s, ActualU(l), FALSE)
                       IN /\ nodes' = AddChild(nodes, 1, s) \o <<st, len>> \o sub
                          /\ pos' = p + w + nb
                          /\ UNCHANGED <<pc, derr>>
  /\ UNCHANGED <<buf, inArg, opts, stack, dv, call, ret>>

\* lines 32, 39: the loop ends at end of input and the function returns nil
AvcAUReturn ==
  /\ pc = "loop"
  /\ ~NotEnd
  /\ pc' = "done"
  /\ UNCHANGED <<buf, inArg, opts, nodes, pos, stack, derr, dv, call, ret>>

(***************************************************************************)
(* decode.Decode, the top-level driver (spec.md 4.4).                      *)
(***************************************************************************)
\* step 6: the unknown scalar that covers what the root's children leave
FillGaps(ns) ==
  LET r == ns[1]
      covered == IF r.children = <<>> THEN r.start
                 ELSE LET last == ns[r.children[Len(r.children)]] IN last.start + last.len
      stop == r.start + r.len
  IN IF covered < stop
     THEN AddChild(ns, 1, Len(ns) + 1)
            \o <<Scalar("unknown0", covered, stop - covered, 1,
                        ActualBits(covered, stop - covered), TRUE)>>
     ELSE ns

\* steps 4, 5: no tree without force, the partial tree with the error on the root
DecodeTree ==
  IF derr # NoErr
  THEN IF opts.force THEN FillGaps([nodes EXCEPT ![1].err = derr]) ELSE <<>>
  ELSE FillGaps(nodes)

DecodeDv == IF derr # NoErr /\ ~opts.force THEN 0 ELSE 1

DecodeErr == IF derr # NoErr THEN FormatsError(<<derr>>) ELSE NoErr

(***************************************************************************)
(* Interp._decode                                                          *)
(***************************************************************************)
valueError(v) == [t |-> "valueError", v |-> v]
GoError(msg) == [t |-> "error", msg |-> msg]

RegisteredFormats == {"avc_au"}

\* lines 107-119: the early returns before decode.Decode is called
DecodeArgsError ==
  IF opts.c # "buffer" THEN GoError("not a buffer")
  ELSE IF opts.format.t # "string" THEN GoError("not a string")
  ELSE IF opts.format.v \notin RegisteredFormats THEN GoError("format not found")
  ELSE NoErr

\* mutant: the error decides, not the missing tree
DecodeResult_errFirst(d, err) ==
  IF err # NoErr
  THEN IF err.t = "FormatsError"
       THEN valueError(GoSlice([i \in 1..Len(err.errs) |-> FormatErrorValue(err.errs[i])]))
       ELSE valueError(err)
  ELSE makeDecodeValue(d)

\* lines 131-145: what _decode returns for decode.Decode's (dv, err)
DecodeResult(d, err) ==
  IF d = 0
  THEN IF err.t = "FormatsError"
       THEN valueError(GoSlice([i \in 1..Len(err.errs) |-> FormatErrorValue(err.errs[i])]))
       ELSE valueError(err)
  ELSE makeDecodeValue(d)

\* lines 64-120
InterpDecodeEnter ==
  /\ pc = "init"
  /\ IF DecodeArgsError # NoErr
     THEN /\ pc' = "failed"
          /\ ret' = DecodeArgsError
          /\ UNCHANGED <<nodes, stack>>
     ELSE /\ pc' = "start"
          /\ nodes' = <<Compound("access_unit", TRUE, 0, BufBits, 0, <<>>, NoErr, opts.format.v)>>
          /\ stack' = <<1>>
          /\ ret' = ret
  /\ UNCHANGED <<buf, inArg, opts, pos, derr, dv, call>>

\* lines 121-146
InterpDecodeReturn ==
  /\ pc \in {"done", "fatal"}
  /\ pc' = "returned"
  /\ nodes' = DecodeTree
  /\ dv' = DecodeDv
  /\ stack' = <<>>
  /\ UNCHANGED <<buf, inArg, opts, pos, derr, call>>
  /\ LET d == DecodeDv
         err == DecodeErr
     IN ret' = DecodeResult(d, err)' 

(***************************************************************************)
(* The avc_au runs.                                                        *)
(***************************************************************************)
Bytes == 0..MaxByte
Inputs == UNION {[1..n -> Bytes] : n \in 0..MaxInputLen}

\* spec.md 8.2 S1
S1Input == <<0, 0, 0, 5, 170, 187, 204, 221, 238, 0, 0, 0, 2, 255, 1>>
S1LengthSize == 4

AvcIn(l) == [isAvcIn |-> TRUE, LengthSize |-> l]
NotAvcIn == [isAvcIn |-> FALSE, LengthSize |-> 0]

InitAU ==
  /\ \/ /\ buf \in Inputs
        /\ inArg \in {NotAvcIn} \cup {AvcIn(l) : l \in 0..MaxLengthSize}
        /\ opts \in [c : {"buffer"}, format : {GoString("avc_au")}, force : BOOLEAN]
     \/ /\ buf = S1Input
        /\ inArg = AvcIn(S1LengthSize)
        /\ opts \in [c : {"buffer"}, format : {GoString("avc_au")}, force : BOOLEAN]
     \/ /\ buf = <<>>
        /\ inArg = NotAvcIn
        /\ opts \in [c : {"buffer", "other"},
                      format : {GoString("avc_au"), GoString("nosuch"), GoInt(1)},
                      force : BOOLEAN]
  /\ nodes = <<>>
  /\ pos = 0
  /\ stack = <<>>
  /\ pc = "init"
  /\ derr = NoErr
  /\ dv = 0
  /\ call = NoCall
  /\ ret = GoNil

NextAU ==
  \/ InterpDecodeEnter
  \/ AvcAUDecodeEnter
  \/ AvcAULoop
  \/ AvcAUReturn
  \/ InterpDecodeReturn

SpecAU == InitAU /\ [][NextAU]_vars

(***************************************************************************)
(* A format plugin that uses the decoder API freely (spec.md 4.1): the     *)
(* trees the value bridge may be handed.                                   *)
(***************************************************************************)
FieldNames == {"a", "_x", "_start"}

Top == stack[Len(stack)]
FieldCount == Len(nodes) - 1

\* 4.1.1: a name is unique within the current struct
NameFree(name) ==
  \/ nodes[Top].kind = "array"
  \/ \A c \in SeqRange(nodes[Top].children) : nodes[c].name # name

AppendField(n) == AddChild(nodes, Top, Len(nodes) + 1) \o <<n>>

\* 4.1.1 FieldU(name, 8)
PluginFieldU ==
  /\ pc = "plugin"
  /\ FieldCount < MaxFields
  /\ CanRead(8)
  /\ \E name \in FieldNames :
       /\ NameFree(name)
       /\ nodes' = AppendField(Scalar(name, pos, 8, Top, ActualU(ReadU(pos, 8)), FALSE))
  /\ pos' = pos + 8
  /\ UNCHANGED <<buf, inArg, opts, stack, pc, derr, dv, call, ret>>

\* 4.1.4 FieldValue(name, scalar): a zero-length synthetic scalar
PluginFieldValue ==
  /\ pc = "plugin"
  /\ FieldCount < MaxFields
  /\ \E name \in FieldNames :
       /\ NameFree(name)
       /\ nodes' = AppendField(Scalar(name, pos, 0, Top, ActualJSON(<<>>), FALSE))
  /\ UNCHANGED <<buf, inArg, opts, pos, stack, pc, derr, dv, call, ret>>

\* 4.1.2 FieldStruct / FieldArray: push a new Compound
PluginFieldCompound ==
  /\ pc = "plugin"
  /\ FieldCount < MaxFields
  /\ \E name \in FieldNames, isArray \in BOOLEAN :
       /\ NameFree(name)
       /\ nodes' = AppendField(Compound(name, isArray, pos, 0, Top, <<>>, NoErr, ""))
  /\ stack' = Append(stack, Len(nodes) + 1)
  /\ UNCHANGED <<buf, inArg, opts, pos, pc, derr, dv, call, ret>>

\* 4.1.2: the body returns, the Compound's range is [start_pos, end_pos)
PluginFieldEnd ==
  /\ pc = "plugin"
  /\ Len(stack) > 1
  /\ nodes' = [nodes EXCEPT ![Top].len = pos - nodes[Top].start]
  /\ stack' = SubSeq(stack, 1, Len(stack) - 1)
  /\ UNCHANGED <<buf, inArg, opts, pos, pc, derr, dv, call, ret>>

\* 4.4: the decode function returns, the driver fills gaps, _decode adapts the root
PluginReturn ==
  /\ pc = "plugin"
  /\ Len(stack) = 1
  /\ pc' = "returned"
  /\ nodes' = FillGaps(nodes)
  /\ dv' = 1
  /\ stack' = <<>>
  /\ UNCHANGED <<buf, inArg, opts, pos, derr, call>>
  /\ ret' = makeDecodeValue(1)'

(***************************************************************************)
(* The query engine's calls on adapted nodes.                              *)
(***************************************************************************)
\* spec.md 4.3.1: the reserved extended keys
ReservedKeys ==
  {"_start", "_stop", "_len", "_name", "_root", "_buffer_root", "_format_root",
   "_parent", "_actual", "_sym", "_description", "_path", "_bits", "_bytes",
   "_error", "_format", "_unknown"}

QueryNames == ReservedKeys \cup {"_x", "a"}
QueryInts == (0 - 1)..(MaxFields + 1)
QueryKeys == {GoString(n) : n \in QueryNames} \cup {GoInt(i) : i \in QueryInts}
UpdateKeys == {GoString("a"), GoString("_start"), GoInt(0)}
UpdateValues == {GoNil, GoInt(2)}

Adapted == {id \in 1..Len(nodes) : IsDecodeValue(makeDecodeValue(id))}
\* the engine holds a root value and has no call in flight
Queryable == pc = "returned" /\ dv # 0 /\ call = NoCall

Call(op, id, key, u, delpath) ==
  [op |-> op, dv |-> id, key |-> key, u |-> u, delpath |-> delpath]

CallKey ==
  /\ Queryable
  /\ \E id \in Adapted, name \in QueryNames :
       /\ call' = Call("key", id, GoString(name), GoNil, FALSE)
       /\ ret' = JQValueKey(makeDecodeValue(id), name)
  /\ UNCHANGED <<buf, inArg, opts, nodes, pos, stack, pc, derr, dv>>

CallHas ==
  /\ Queryable
  /\ \E id \in Adapted, key \in QueryKeys :
       /\ call' = Call("has", id, key, GoNil, FALSE)
       /\ ret' = JQValueHas(makeDecodeValue(id), key)
  /\ UNCHANGED <<buf, inArg, opts, nodes, pos, stack, pc, derr, dv>>

CallIndex ==
  /\ Queryable
  /\ \E id \in Adapted, i \in (0 - 2)..(MaxFields + 1) :
       /\ nodes[id].kind = "array"
       /\ call' = Call("index", id, GoInt(i), GoNil, FALSE)
       /\ ret' = ArrayDecodeValue_JQValueIndex(makeDecodeValue(id), i)
  /\ UNCHANGED <<buf, inArg, opts, nodes, pos, stack, pc, derr, dv>>

CallKeys ==
  /\ Queryable
  /\ \E id \in Adapted :
       /\ IsCompound(nodes[id])
       /\ call' = Call("keys", id, GoNil, GoNil, FALSE)
       /\ ret' = JQValueKeys(makeDecodeValue(id))
  /\ UNCHANGED <<buf, inArg, opts, nodes, pos, stack, pc, derr, dv>>

CallLength ==
  /\ Queryable
  /\ \E id \in Adapted :
       /\ IsCompound(nodes[id])
       /\ call' = Call("length", id, GoNil, GoNil, FALSE)
       /\ ret' = JQValueLength(makeDecodeValue(id))
  /\ UNCHANGED <<buf, inArg, opts, nodes, pos, stack, pc, derr, dv>>

CallUpdate ==
  /\ Queryable
  /\ \E id \in Adapted, key \in UpdateKeys, u \in UpdateValues, delpath \in BOOLEAN :
       /\ IsCompound(nodes[id])
       /\ call' = Call("update", id, key, u, delpath)
       /\ ret' = JQValueUpdate(makeDecodeValue(id), key, u, delpath)
  /\ UNCHANGED <<buf, inArg, opts, nodes, pos, stack, pc, derr, dv>>

CallToGoJQ ==
  /\ Queryable
  /\ \E id \in Adapted :
       /\ call' = Call("toGoJQ", id, GoNil, GoNil, FALSE)
       /\ ret' = JQValueToGoJQ(makeDecodeValue(id))
  /\ UNCHANGED <<buf, inArg, opts, nodes, pos, stack, pc, derr, dv>>

\* the engine takes the call's result; the next call may follow
CallReturn ==
  /\ pc = "returned"
  /\ call # NoCall
  /\ call' = NoCall
  /\ ret' = makeDecodeValue(dv)
  /\ UNCHANGED <<buf, inArg, opts, nodes, pos, stack, pc, derr, dv>>

InitBridge ==
  /\ buf = [i \in 1..MaxFields |-> i]
  /\ inArg = NotAvcIn
  /\ opts = [c |-> "buffer", format |-> GoString("plugin"), force |-> FALSE]
  /\ \E isArray \in BOOLEAN :
       nodes = <<Compound("root", isArray, 0, BufBits, 0, <<>>, NoErr, "plugin")>>
  /\ pos = 0
  /\ stack = <<1>>
  /\ pc = "plugin"
  /\ derr = NoErr
  /\ dv = 0
  /\ call = NoCall
  /\ ret = GoNil

NextBridge ==
  \/ PluginFieldU
  \/ PluginFieldValue
  \/ PluginFieldCompound
  \/ PluginFieldEnd
  \/ PluginReturn
  \/ CallKey
  \/ CallHas
  \/ CallIndex
  \/ CallKeys
  \/ CallLength
  \/ CallUpdate
  \/ CallToGoJQ
  \/ CallReturn

SpecBridge == InitBridge /\ [][NextBridge]_vars

(***************************************************************************)
(* Claims about avc_au and _decode, checked under SpecAU.                  *)
(***************************************************************************)
RECURSIVE ToBigEndian(_, _)
\* the l bytes that encode n, most significant first
ToBigEndian(n, l) ==
  IF l = 0 THEN <<>> ELSE ToBigEndian(n \div 256, l - 1) \o <<n % 256>>

RECURSIVE Records(_, _)
\* b as a concatenation of records (an l-byte length n, then n bytes): the
\* payload lengths in order, or not ok when b is no such concatenation
Records(b, l) ==
  IF b = <<>> THEN [ok |-> TRUE, lens |-> <<>>]
  ELSE IF l = 0 \/ Len(b) < l THEN [ok |-> FALSE, lens |-> <<>>]
  ELSE LET fits == {n \in 0..(Len(b) - l) : ToBigEndian(n, l) = SubSeq(b, 1, l)}
       IN IF fits = {} THEN [ok |-> FALSE, lens |-> <<>>]
          ELSE LET n == CHOOSE x \in fits : TRUE
                   rest == Records(SubSeq(b, l + n + 1, Len(b)), l)
               IN [ok |-> rest.ok, lens |-> <<n>> \o rest.lens]

RECURSIVE RecordStart(_, _, _)
\* the bit position p_i where record i starts
RecordStart(lens, l, i) ==
  IF i = 1 THEN 0 ELSE RecordStart(lens, l, i - 1) + 8 * l + 8 * lens[i - 1]

\* C1: for an input that is a concatenation of records the decode does not
\* abort and yields one struct "nalu" per record, in order; record i has the
\* scalar "length" = n_i at [p_i, p_i + 8L) and the sub-field "nalu" at
\* [p_i + 8L, p_i + 8L + 8 n_i), and the next record starts right after it,
\* whatever the sub-decoder consumed.
C1_RecordsDecoded ==
  LET l == inArg.LengthSize
      recs == Records(buf, l)
  IN (inArg.isAvcIn /\ recs.ok /\ pc \in {"loop", "done", "fatal", "returned"}) =>
       /\ pc # "fatal"
       /\ derr = NoErr
       /\ LET ch == nodes[1].children IN
          /\ Len(ch) <= Len(recs.lens)
          /\ pc = "loop" => pos = RecordStart(recs.lens, l, Len(ch) + 1)
          /\ pc \in {"done", "returned"} => Len(ch) = Len(recs.lens)
          /\ \A i \in 1..Len(ch) :
               LET st == nodes[ch[i]]
                   p == RecordStart(recs.lens, l, i)
               IN /\ st.name = "nalu" /\ st.kind = "struct" /\ st.parent = 1
                  /\ st.start = p /\ st.len = 8 * l + 8 * recs.lens[i]
                  /\ Len(st.children) = 2
                  /\ LET len == nodes[st.children[1]]
                         nalu == nodes[st.children[2]]
                     IN /\ len.name = "length" /\ len.kind = "scalar"
                        /\ len.actual = ActualU(recs.lens[i])
                        /\ len.start = p /\ len.len = 8 * l
                        /\ nalu.name = "nalu" /\ IsCompound(nalu)
                        /\ nalu.start = p + 8 * l /\ nalu.len = 8 * recs.lens[i]

\* C1 witness: the input of scenario S1 decoded with L = 4 into two records,
\* the first sub-decode having consumed only part of its window
C1_Witness ==
  /\ pc = "returned" /\ buf = S1Input /\ inArg = AvcIn(S1LengthSize)
  /\ Len(nodes[1].children) = 2
  /\ LET a == nodes[nodes[1].children[1]]
         b == nodes[nodes[1].children[2]]
     IN /\ <<nodes[a.children[1]].start, nodes[a.children[1]].len>> = <<0, 32>>
        /\ nodes[a.children[1]].actual = ActualU(5)
        /\ <<nodes[a.children[2]].start, nodes[a.children[2]].len>> = <<32, 40>>
        /\ <<nodes[b.children[1]].start, nodes[b.children[1]].len>> = <<72, 32>>
        /\ nodes[b.children[1]].actual = ActualU(2)
        /\ <<nodes[b.children[2]].start, nodes[b.children[2]].len>> = <<104, 16>>
        /\ Len(nodes[a.children[2]].children) = 2
        /\ nodes[nodes[a.children[2]].children[1]].len = 3

\* C6: once decode.Decode has run, _decode returns by the force option: a
\* Fatal without force gives the error values of the FormatsError and no
\* tree; a Fatal with force gives the adapted partial tree whose root shows
\* the error as _error; no Fatal gives the adapted root, never an error.
C6_ForceOption ==
  pc = "returned" =>
    /\ (derr # NoErr /\ ~opts.force) =>
         /\ ret = valueError(GoSlice(<<FormatErrorValue(derr)>>))
         /\ dv = 0 /\ nodes = <<>>
    /\ (derr # NoErr /\ opts.force) =>
         /\ dv = 1 /\ ret = NewArrayDecodeValue(1)
         /\ JQValueKey(ret, "_error") = FormatErrorValue(derr)
    /\ derr = NoErr =>
         /\ dv = 1 /\ ret = NewArrayDecodeValue(1)
         /\ JQValueKey(ret, "_error") = GoNil

\* C6 witness: a forced decode that aborted after one record was decoded
C6_Witness ==
  /\ pc = "returned" /\ derr # NoErr /\ opts.force
  /\ Len(nodes[1].children) = 2
  /\ nodes[nodes[1].children[1]].name = "nalu"
  /\ nodes[nodes[1].children[2]].unknown
  /\ ret = NewArrayDecodeValue(1)

\* C9: every iteration of the loop strictly advances the bit position or
\* aborts the decode, and a decode whose argument is no AvcIn aborts before
\* any field is appended.
C9_LoopAdvancesOrAborts ==
  [][/\ AvcAULoop => (pos' > pos \/ pc' = "fatal")
     /\ (AvcAUDecodeEnter /\ ~inArg.isAvcIn) =>
          (pc' = "fatal" /\ nodes'[1].children = <<>>)]_vars

(***************************************************************************)
(* Claims about the value bridge, checked under SpecBridge.                *)
(***************************************************************************)
\* the query names that start with "_"
UnderscoreNames == ReservedKeys \cup {"_x"}

ChildIds(id) == SeqRange(nodes[id].children)
CalledNode == nodes[call.dv]
CalledValue == makeDecodeValue(call.dv)

\* C2 as stated: on a struct, for every name k, has(k) is true iff k is one
\* of keys(C), names that start with "_" included.
C2_HasIffKeys ==
  (call.op = "has" /\ CalledNode.kind = "struct" /\ call.key.t = "string") =>
    ((ret = GoBool(TRUE)) <=> (call.key \in SeqRange(JQValueKeys(CalledValue).v)))

\* C2 amended: on a struct, for every name k that does not start with "_",
\* has(k) is true or false, and true iff k is one of keys(C).
C2_HasIffKeysPlain ==
  (call.op = "has" /\ CalledNode.kind = "struct" /\ call.key.t = "string"
     /\ call.key.v \notin UnderscoreNames) =>
    /\ ret \in {GoBool(TRUE), GoBool(FALSE)}
    /\ (ret = GoBool(TRUE)) <=> (call.key \in SeqRange(JQValueKeys(CalledValue).v))

\* C2 witness: has("a") answered true on a struct whose second child is "a"
C2_Witness ==
  /\ call.op = "has" /\ CalledNode.kind = "struct" /\ call.key = GoString("a")
  /\ Len(CalledNode.children) = 2
  /\ nodes[CalledNode.children[2]].name = "a"
  /\ ret = GoBool(TRUE)

\* the decimal text of a small integer
Decimal(i) ==
  CASE i = 0 - 1 -> "-1" [] i = 0 -> "0" [] i = 1 -> "1" [] i = 2 -> "2" [] i = 3 -> "3"

\* C3: an update on an adapted struct or array, for every key, new value and
\* delete flag, returns notUpdateable (typ "object" for a struct, "array" for
\* an array, with the key) and leaves every node of the tree as it was.
C3_UpdateRejected ==
  [][(call'.op = "update" /\ call' # call) =>
       /\ nodes' = nodes
       /\ dv' = dv
       /\ ret' = notUpdateableError(
                    IF call'.key.t = "string" THEN call'.key.v ELSE Decimal(call'.key.v),
                    IF nodes[call'.dv].kind = "struct" THEN "object" ELSE "array")]_vars

\* C3 witness: a delete of index 0 on an array with children was rejected
C3_Witness ==
  /\ call.op = "update" /\ call.delpath /\ call.key = GoInt(0)
  /\ CalledNode.kind = "array" /\ Len(CalledNode.children) = 2
  /\ ret = notUpdateableError("0", "array")

\* C4: for every adapted node and every key that starts with "_", the lookup
\* never yields a child; a reserved key yields the node's metadata and any
\* other key yields expectedExtkey with that key, also when a struct has a
\* child of exactly that name.
C4_ExtKeyLookup ==
  (call.op = "key" /\ call.key.v \in UnderscoreNames) =>
    LET k == call.key.v
        n == CalledNode
    IN /\ k \notin ReservedKeys => ret = expectedExtkeyError(k)
       /\ k \in ReservedKeys => ret.t # "expectedExtkeyError"
       /\ \A c \in ChildIds(call.dv) : ret # makeDecodeValue(c)
       /\ k = "_start" => ret = BigInt(n.start)
       /\ k = "_len" => ret = BigInt(n.len)
       /\ k = "_stop" => ret = BigInt(n.start + n.len)
       /\ k = "_name" => ret = GoString(n.name)
       /\ k = "_unknown" => ret = GoBool(n.kind = "scalar" /\ n.unknown)
       /\ k \in {"_actual", "_sym"} /\ IsCompound(n) => ret = GoNil
       /\ k = "_error" /\ n.kind = "scalar" => ret = GoNil

\* C4 witness: "_x" looked up on a struct whose child is named "_x"
C4_Witness ==
  /\ call.op = "key" /\ call.key = GoString("_x") /\ CalledNode.kind = "struct"
  /\ \E c \in ChildIds(call.dv) : nodes[c].name = "_x"
  /\ ret = expectedExtkeyError("_x")

RECURSIVE ToPlain(_)
\* spec.md 4.3: to-plain applied recursively
ToPlain(id) ==
  LET n == nodes[id] IN
  IF n.kind = "struct"
  THEN GoMap([nm \in {nodes[c].name : c \in ChildIds(id)} |->
               ToPlain(CHOOSE c \in ChildIds(id) : nodes[c].name = nm)])
  ELSE IF n.kind = "array"
  THEN GoSlice([i \in 1..Len(n.children) |-> ToPlain(n.children[i])])
  ELSE decodeValue_JQValueToGoJQEx(makeDecodeValue(id))

\* C5: to-plain of a Compound is the mapping (struct) or sequence (array) of
\* the to-plain of its children, recursively: one entry per child and plain
\* values at every depth, no adapted decode nodes.
C5_ToPlainRecursive ==
  (call.op = "toGoJQ" /\ IsCompound(CalledNode)) =>
    /\ ret = ToPlain(call.dv)
    /\ \A x \in DOMAIN ret.v : ~IsDecodeValue(ret.v[x])

RECURSIVE FollowParent(_)
\* the node reached from v by following _parent until it is absent
FollowParent(v) ==
  LET p == JQValueKey(v, "_parent") IN IF p = GoNil THEN v ELSE FollowParent(p)

\* C7: _parent is absent iff the node is the tree root and is otherwise the
\* adapted enclosing Compound; _root is the node reached by following
\* _parent until it is absent; _root of _root is _root; the root's _path is
\* empty.
C7_ParentRoot ==
  call.op = "key" =>
    /\ call.key.v = "_parent" =>
         /\ (ret = GoNil) <=> (call.dv = dv)
         /\ call.dv # dv =>
              \E c \in 1..Len(nodes) :
                /\ IsCompound(nodes[c]) /\ call.dv \in ChildIds(c)
                /\ ret = makeDecodeValue(c)
    /\ call.key.v = "_root" =>
         /\ ret = FollowParent(CalledValue)
         /\ JQValueKey(ret, "_root") = ret
    /\ (call.key.v = "_path" /\ call.dv = dv) => ret = GoSlice(<<>>)

\* C7 witness: _root asked of a node two levels below the root
C7_Witness ==
  /\ call.op = "key" /\ call.key = GoString("_root")
  /\ CalledNode.parent # 0 /\ nodes[CalledNode.parent].parent = dv
  /\ ret = makeDecodeValue(dv)

\* C8 as stated: on an array of n children, keys is 0..n-1, has(i) is true
\* iff 0 <= i < n, index(i) is the adapted child i when has(i) is true and
\* is absent, not a failure, whenever has(i) is false.
C8_IndexAbsentOutside ==
  LET n == Len(CalledNode.children) IN
  (call.op \in {"keys", "has", "index"} /\ CalledNode.kind = "array") =>
    /\ call.op = "keys" => ret = GoSlice([i \in 1..n |-> GoInt(i - 1)])
    /\ (call.op = "has" /\ call.key.t = "int") =>
         ret = GoBool(0 <= call.key.v /\ call.key.v < n)
    /\ call.op = "index" =>
         IF JQValueHas(CalledValue, call.key) = GoBool(TRUE)
         THEN ret = makeDecodeValue(CalledNode.children[call.key.v + 1])
         ELSE ret = GoNil

\* C8 amended: as stated, but index(i) is absent for every negative i only;
\* for i >= n it is not absent: the call fails (index out of range).
C8_IndexAbsentNegative ==
  LET n == Len(CalledNode.children) IN
  (call.op \in {"keys", "has", "index"} /\ CalledNode.kind = "array") =>
    /\ call.op = "keys" => ret = GoSlice([i \in 1..n |-> GoInt(i - 1)])
    /\ (call.op = "has" /\ call.key.t = "int") =>
         ret = GoBool(0 <= call.key.v /\ call.key.v < n)
    /\ call.op = "index" =>
         IF JQValueHas(CalledValue, call.key) = GoBool(TRUE)
         THEN ret = makeDecodeValue(CalledNode.children[call.key.v + 1])
         ELSE IF call.key.v < 0 THEN ret = GoNil
         ELSE ret.t = "panic"

\* C8 witness: index(1) on an array of two children gave the second child
C8_Witness ==
  /\ call.op = "index" /\ call.key = GoInt(1)
  /\ Len(CalledNode.children) = 2
  /\ ret = makeDecodeValue(CalledNode.children[2])

\* C10 as stated: for every adapted node and every key k that starts with
\* "_", k is in ExtKeys(node) iff key(k) does not return expectedExtkey.
C10_ExtKeysExact ==
  (call.op = "key" /\ call.key.v \in UnderscoreNames) =>
    ((call.key.v \in SeqRange(ExtKeys(CalledValue))) <=> (ret.t # "expectedExtkeyError"))

\* C10 amended: that holds for Compound nodes; for a Scalar node key(k) does
\* not return expectedExtkey iff k is in ExtKeys(node) or is "_error" or
\* "_format", which ExtKeys does not list for a Scalar.
C10_ExtKeysCompound ==
  (call.op = "key" /\ call.key.v \in UnderscoreNames) =>
    LET listed == SeqRange(ExtKeys(CalledValue))
        accepted == ret.t # "expectedExtkeyError"
    IN IF IsCompound(CalledNode)
       THEN (call.key.v \in listed) <=> accepted
       ELSE /\ (call.key.v \in listed \cup {"_error", "_format"}) <=> accepted
            /\ listed \cap {"_error", "_format"} = {}

\* C10 witness: "_error" looked up on a Compound, which lists it
C10_Witness ==
  /\ call.op = "key" /\ call.key = GoString("_error") /\ IsCompound(CalledNode)
  /\ CalledNode.parent # 0
  /\ "_error" \in SeqRange(ExtKeys(CalledValue))
  /\ ret = GoNil

====
